---- MODULE Spec2Model ----
(***************************************************************************)
(* Model of two crocoddyl components:                                      *)
(*   - ActionModelLQRTpl            (core/actions/lqr.hxx)                 *)
(*   - ControlParametrizationModelPolyTwoRK4Tpl                            *)
(*                                  (core/controls/poly-two-rk4.hxx)       *)
(*                                                                         *)
(* Scalars are exact fixed-point numbers: the integer k stands for the     *)
(* real k / One.  Every input is drawn from a grid on which each product   *)
(* the code forms is again a multiple of 1 / One, so no rounding occurs    *)
(* and Mul is exact.  Matrices are sequences of rows, vectors sequences.   *)
(***************************************************************************)
EXTENDS Integers, Sequences, FiniteSets, TLC

VARIABLES
  lqr,     \* the ActionModelLQR object: nx, nu_, drift_free_, A_ .. r_, H_
  data,    \* the ActionDataLQR object handed to calc / calcDiff
  cp,      \* the ControlParametrizationModelPolyTwoRK4 object: nw_, nu_
  cdata,   \* its ControlParametrizationDataPolyTwoRK4: w, u, dw_du, c, tmp_t2
  u_lb,    \* caller's output buffer of convertBounds
  u_ub,    \* caller's output buffer of convertBounds
  out,     \* caller's output buffer of multiplyByJacobian / ...TransposeBy
  call,    \* the most recent call: its name and its arguments
  err,     \* "" when that call returned, else the message of its exception
  hist     \* history: the t of the latest returning parametrization calc and
           \* the w of the latest returning params (<<>> before the first)

vars == <<lqr, data, cp, cdata, u_lb, u_ub, out, call, err, hist>>

---------------------------------------------------------------------------
(* Bounds of the model.                                                    *)

\* Times t are the multiples of 1 / (2 * TimeRes) from -1/(2*TimeRes) on.
TimeRes == 1
\* Entries of the x, u, w vectors passed to calc / calcDiff / params: 0..MaxVal.
MaxVal == 1
\* Steps h of the central differences compared with Lx, Lu: 1..MaxH.
MaxH == 2

---------------------------------------------------------------------------
(* Fixed-point scalars.                                                    *)

TDen == 2 * TimeRes
One == TDen * TDen
\* Scalar(0.5)
Half == One \div 2
\* Scalar(2.)
Two == 2 * One
Num(k) == k * One
\* the product of two scalars
Mul(a, b) == (a * b) \div One

RECURSIVE SumSeq(_)
SumSeq(s) == IF Len(s) = 0 THEN 0 ELSE Head(s) + SumSeq(Tail(s))

\* the function f on 1..n as the sequence of its values (an evaluated copy)
Tuple(f) == f \o <<>>
\* the matrix with the entries e[i][j], i in 1..r, j in 1..c
Matrix(r, c, e(_, _)) == Tuple([i \in 1..r |-> Tuple([j \in 1..c |-> e(i, j)])])

---------------------------------------------------------------------------
(* Dense matrices and vectors (Eigen::MatrixXs, Eigen::VectorXs).          *)

Rows(M) == Len(M)
Cols(M) == IF Len(M) = 0 THEN 0 ELSE Len(M[1])
\* MatrixXs::Zero(r, c)
Zero(r, c) == Matrix(r, c, LAMBDA i, j : 0)
\* MatrixXs::Identity(r, c)
Identity(r, c) == Matrix(r, c, LAMBDA i, j : IF i = j THEN One ELSE 0)
\* VectorXs::Zero(n)
ZeroVec(n) == Tuple([i \in 1..n |-> 0])
\* VectorXs::Ones(n)
OnesVec(n) == Tuple([i \in 1..n |-> One])
\* the default-constructed MatrixXs / VectorXs: 0 x 0
Empty == <<>>
\* M.transpose()
Transpose(M) == Matrix(Cols(M), Rows(M), LAMBDA j, i : M[i][j])
\* a.dot(b)
Dot(a, b) == SumSeq(Tuple([i \in 1..Len(a) |-> Mul(a[i], b[i])]))
\* M * v, for Cols(M) = Len(v)
MatVec(M, v) == Tuple([i \in 1..Rows(M) |-> Dot(M[i], v)])
VecAdd(a, b) == Tuple([i \in 1..Len(a) |-> a[i] + b[i]])
\* s * M for a scalar s
Scale(s, M) == Matrix(Rows(M), Cols(M), LAMBDA i, j : Mul(s, M[i][j]))
\* M.cwiseAbs2().sum(), in units of 1 / One^2
SquaredNorm(M) ==
  SumSeq(Tuple([i \in 1..Rows(M) |->
            SumSeq(Tuple([j \in 1..Cols(M) |-> M[i][j] * M[i][j]]))]))

---------------------------------------------------------------------------
(* ActionModelLQRTpl::set_LQR and the checks it makes.                     *)

\* H_ << Q, N, N.transpose(), R   (lqr.hxx:285-286)
AssembleH(Q, N, R) ==
  LET nx == Rows(Q)
      NT == Transpose(N)
  IN Tuple([i \in 1..(nx + Rows(R)) |->
              IF i <= nx THEN Q[i] \o N[i] ELSE NT[i - nx] \o R[i - nx]])

\* Eigen's DenseBase::isApprox(other) with the default precision 1e-12 of
\* double:  ||a - b||^2 <= prec^2 * min(||a||^2, ||b||^2).  Both sides are in
\* units of 1 / One^2; dividing by prec^2 = 1e-24 is four floor divisions by
\* 1e6, which is exact for the comparison of integers.
isApprox(a, b) ==
  LET diff == Matrix(Rows(a), Cols(a), LAMBDA i, j : a[i][j] - b[i][j])
      na == SquaredNorm(a)
      nb == SquaredNorm(b)
      least == IF na <= nb THEN na ELSE nb
  IN SquaredNorm(diff) <=
       ((((least \div 1000000) \div 1000000) \div 1000000) \div 1000000)

\* M without row i and column j
Minor(M, i, j) ==
  LET n == Rows(M)
  IN Matrix(n - 1, n - 1, LAMBDA a, b :
              M[IF a < i THEN a ELSE a + 1][IF b < j THEN b ELSE b + 1])

RECURSIVE Det(_)
\* determinant by expansion along the first row, in units of 1 / One^Rows(M)
Det(M) ==
  IF Rows(M) = 0 THEN 1
  ELSE IF Rows(M) = 1 THEN M[1][1]
  ELSE SumSeq(Tuple([j \in 1..Rows(M) |->
         (IF j % 2 = 1 THEN 1 ELSE -1) * M[1][j] * Det(Minor(M, 1, j))]))

\* the leading k x k block of the symmetric matrix whose lower triangle is M's
LowerLeading(M, k) ==
  Matrix(k, k, LAMBDA i, j : IF j <= i THEN M[i][j] ELSE M[j][i])

\* Eigen::LLT<MatrixXs>(H).info().  The factorization reads the lower triangle
\* only and stops with NumericalIssue at the first pivot
\*   x_k = H(k,k) - sum_j L(k,j)^2  that is <= 0   (Eigen's llt_inplace).
\* In exact arithmetic x_k is the ratio of the k-th to the (k-1)-th leading
\* principal minor, so with all earlier pivots positive the sign of x_k is the
\* sign of the k-th leading minor.
LltInfo(H) ==
  IF \A k \in 1..Rows(H) : Det(LowerLeading(H, k)) > 0
  THEN "Success" ELSE "NumericalIssue"

ErrA == "A should be a squared matrix with size nx"
ErrB == "B has wrong dimension"
ErrQ == "Q has wrong dimension"
ErrR == "R has wrong dimension"
ErrN == "N has wrong dimension"
Errf == "f has wrong dimension"
Errq == "q has wrong dimension"
Errr == "r has wrong dimension"
ErrH == "[Q, N; N.T, R] is not semi-positive definite"
Errx == "x has wrong dimension"
Erru == "u has wrong dimension"

\* set_LQR on the model m with the arguments a = [A, B, Q, R, N, f, q, r]:
\* the model it leaves and the message of the exception it throws ("": none)
set_LQR(m, a) ==
  LET nx == m.nx
      nu == m.nu_
      fail(msg) == [model |-> m, err |-> msg]
  IN IF Rows(a.A) # nx THEN fail(ErrA)
     ELSE IF Rows(a.B) # nx THEN fail(ErrB)
     ELSE IF Rows(a.Q) # nx \/ Cols(a.Q) # nx THEN fail(ErrQ)
     ELSE IF Rows(a.R) # nu \/ Cols(a.R) # nu THEN fail(ErrR)
     ELSE IF Rows(a.N) # nx \/ Cols(a.N) # nu THEN fail(ErrN)
     ELSE IF Len(a.f) # nx THEN fail(Errf)
     ELSE IF Len(a.q) # nx THEN fail(Errq)
     ELSE IF Len(a.r) # nu THEN fail(Errr)
     ELSE LET H == AssembleH(a.Q, a.N, a.R)
              m1 == [m EXCEPT !.H_ = H]
          IN IF ~isApprox(H, Transpose(H)) \/ LltInfo(H) = "NumericalIssue"
             THEN [model |-> m1, err |-> ErrH]
             ELSE [model |-> [m1 EXCEPT !.A_ = a.A, !.B_ = a.B, !.f_ = a.f,
                                        !.Q_ = a.Q, !.R_ = a.R, !.N_ = a.N,
                                        !.q_ = a.q, !.r_ = a.r],
                   err |-> ""]

\* the members of a model before a constructor's body runs
Members(nx, nu, drift_free) ==
  [nx |-> nx, nu_ |-> nu, drift_free_ |-> drift_free,
   A_ |-> Empty, B_ |-> Empty, Q_ |-> Empty, R_ |-> Empty, N_ |-> Empty,
   f_ |-> Empty, q_ |-> Empty, r_ |-> Empty, H_ |-> Empty]

\* ActionModelLQRTpl(A, B, Q, R, N)
ActionModelLQR5(a) ==
  LET m == Members(Cols(a.A), Cols(a.B), TRUE)
  IN set_LQR(m, [a EXCEPT !.f = ZeroVec(m.nx), !.q = ZeroVec(m.nx),
                          !.r = ZeroVec(m.nu_)])

\* ActionModelLQRTpl(A, B, Q, R, N, f, q, r)
ActionModelLQR8(a) == set_LQR(Members(Cols(a.A), Cols(a.B), FALSE), a)

\* ActionModelLQRTpl(nx, nu, drift_free)
ActionModelLQR3(nx, nu, drift_free) ==
  [Members(nx, nu, drift_free) EXCEPT
     !.A_ = Identity(nx, nx), !.B_ = Identity(nx, nu),
     !.Q_ = Identity(nx, nx), !.R_ = Identity(nu, nu), !.N_ = Zero(nx, nu),
     !.f_ = IF drift_free THEN ZeroVec(nx) ELSE OnesVec(nx),
     !.q_ = OnesVec(nx), !.r_ = OnesVec(nu)]

---------------------------------------------------------------------------
(* ActionModelLQRTpl::calc / calcDiff on an ActionDataLQR.                 *)

\* the data createData() returns: every buffer sized for the model and zero
createData(m) ==
  [xnext |-> ZeroVec(m.nx), cost |-> 0,
   Fx |-> Zero(m.nx, m.nx), Fu |-> Zero(m.nx, m.nu_),
   Lx |-> ZeroVec(m.nx), Lu |-> ZeroVec(m.nu_),
   Lxx |-> Zero(m.nx, m.nx), Luu |-> Zero(m.nu_, m.nu_),
   Lxu |-> Zero(m.nx, m.nu_),
   Q_x_tmp |-> ZeroVec(m.nx), R_u_tmp |-> ZeroVec(m.nu_)]

\* the vectors of length n with entries 0..MaxVal
Vecs(n) == [1..n -> {Num(k) : k \in 0..MaxVal}]

\* eigen_assert(lhs.cols() == rhs.rows()) of a matrix product, when assertions
\* are compiled in: the process aborts
ErrAbort == "abort: invalid matrix product"

\* the value data->cost has when calc(data, x, u) returns   (lqr.hxx:78-85)
calcCost(m, x, u) ==
  LET Q_x_tmp == MatVec(m.Q_, x)
      cost1 == Mul(Half, Dot(x, Q_x_tmp))
      R_u_tmp == MatVec(m.R_, u)
      cost2 == cost1 + Mul(Half, Dot(u, R_u_tmp))
      N_u_tmp == MatVec(m.N_, u)
      cost3 == cost2 + Dot(x, N_u_tmp)
      cost4 == cost3 + Dot(m.q_, x)
  IN cost4 + Dot(m.r_, u)

\* calc(data, x, u): the outcomes it can have, each the data it leaves and
\* the message of its exception.  With A_ or B_ of a column count other than
\* |x| or |u| the products A_ * x, B_ * u are outside Eigen's contract: the
\* build with assertions aborts, the build without reads what lies behind the
\* operands, so xnext may hold any values.
calc(m, d, x, u) ==
  IF Len(x) # m.nx THEN {[data |-> d, err |-> Errx]}
  ELSE IF Len(u) # m.nu_ THEN {[data |-> d, err |-> Erru]}
  ELSE LET d1 == [d EXCEPT !.cost = calcCost(m, x, u),
                           !.R_u_tmp = MatVec(m.R_, u),
                           !.Q_x_tmp = MatVec(m.N_, u)]
       IN IF Cols(m.A_) = Len(x) /\ Cols(m.B_) = Len(u)
          THEN {[data |-> [d1 EXCEPT !.xnext =
                   VecAdd(VecAdd(MatVec(m.A_, x), MatVec(m.B_, u)), m.f_)],
                 err |-> ""]}
          ELSE {[data |-> [d1 EXCEPT !.xnext = g], err |-> ""] :
                  g \in Vecs(Rows(m.A_))}
               \cup {[data |-> d, err |-> ErrAbort]}

\* calcDiff(data, x, u)
\* calcDiff with the cross term N u left out of Lx
calcDiff_noCross(m, d, x, u) ==
  IF Len(x) # m.nx THEN [data |-> d, err |-> Errx]
  ELSE IF Len(u) # m.nu_ THEN [data |-> d, err |-> Erru]
  ELSE [data |-> [d EXCEPT
          !.Fx = m.A_, !.Fu = m.B_, !.Lxx = m.Q_, !.Luu = m.R_, !.Lxu = m.N_,
          !.Lx = VecAdd(m.q_, MatVec(m.Q_, x)),
          !.Lu = VecAdd(VecAdd(m.r_, MatVec(Transpose(m.N_), x)),
                        MatVec(m.R_, u))],
        err |-> ""]

calcDiff(m, d, x, u) ==
  IF Len(x) # m.nx THEN [data |-> d, err |-> Errx]
  ELSE IF Len(u) # m.nu_ THEN [data |-> d, err |-> Erru]
  ELSE [data |-> [d EXCEPT
          !.Fx = m.A_, !.Fu = m.B_, !.Lxx = m.Q_, !.Luu = m.R_, !.Lxu = m.N_,
          !.Lx = VecAdd(VecAdd(m.q_, MatVec(m.Q_, x)), MatVec(m.N_, u)),
          !.Lu = VecAdd(VecAdd(m.r_, MatVec(Transpose(m.N_), x)),
                        MatVec(m.R_, u))],
        err |-> ""]

---------------------------------------------------------------------------
(* The arguments callers pass.                                             *)

\* the (nx, nu) of the models built
Dims == {<<1, 1>>, <<2, 1>>}

UpperOnes(n) == Matrix(n, n, LAMBDA i, j : IF j >= i THEN One ELSE 0)
BottomIdentity(r, c) ==
  Matrix(r, c, LAMBDA i, j : IF i - (r - c) = j THEN One ELSE 0)
OnesMat(r, c) == Matrix(r, c, LAMBDA i, j : One)

\* <<A, B>> with nx rows each: well shaped, or with a column too many
ABCands(nx, nu) ==
  {<<Identity(nx, nx), BottomIdentity(nx, nu)>>,
   <<UpperOnes(nx), Identity(nx, nu)>>,
   <<Identity(nx, nx + 1), Identity(nx, nu)>>,
   <<Identity(nx, nx), Identity(nx, nu + 1)>>}
\* <<Q, R, N>> of the right shapes: positive definite blocks, a singular
\* positive-semi-definite one (R = 0, N = 0), indefinite ones, an asymmetric Q
QRNCands(nx, nu) ==
  {<<Identity(nx, nx), Identity(nu, nu), Zero(nx, nu)>>,
   <<Scale(Two, Identity(nx, nx)), Scale(Two, Identity(nu, nu)), OnesMat(nx, nu)>>,
   <<Scale(Two, Identity(nx, nx)), Identity(nu, nu), Zero(nx, nu)>>,
   <<Identity(nx, nx), Zero(nu, nu), Zero(nx, nu)>>,
   <<Scale(-One, Identity(nx, nx)), Identity(nu, nu), Zero(nx, nu)>>,
   <<Identity(nx, nx), Identity(nu, nu), OnesMat(nx, nu)>>,
   <<UpperOnes(nx), Identity(nu, nu), Zero(nx, nu)>>}
\* <<f, q, r>> of the right lengths
fqrCands(nx, nu) ==
  {<<ZeroVec(nx), ZeroVec(nx), ZeroVec(nu)>>,
   <<OnesVec(nx), OnesVec(nx), OnesVec(nu)>>,
   <<ZeroVec(nx), OnesVec(nx), OnesVec(nu)>>}

Args(ab, t, v) ==
  [A |-> ab[1], B |-> ab[2], Q |-> t[1], R |-> t[2], N |-> t[3],
   f |-> v[1], q |-> v[2], r |-> v[3]]

\* the arguments of the C++ example of the specification when (nx, nu) = (2, 1)
Plain(nx, nu) ==
  Args(<<Identity(nx, nx), BottomIdentity(nx, nu)>>,
       <<Identity(nx, nx), Identity(nu, nu), Zero(nx, nu)>>,
       <<ZeroVec(nx), ZeroVec(nx), ZeroVec(nu)>>)

\* Plain with one argument that fails a shape check of set_LQR
Misshaped(nx, nu) ==
  LET p == Plain(nx, nu)
  IN {[p EXCEPT !.A = Identity(nx + 1, nx)],
      [p EXCEPT !.B = Identity(nx + 1, nu)],
      [p EXCEPT !.Q = Identity(nx, nx + 1)],
      [p EXCEPT !.R = Identity(nu + 1, nu)],
      [p EXCEPT !.N = Zero(nx, nu + 1)],
      [p EXCEPT !.f = ZeroVec(nx + 1)],
      [p EXCEPT !.q = ZeroVec(nx + 1)],
      [p EXCEPT !.r = ZeroVec(nu + 1)]}

\* the arguments of set_LQR and of the matrix constructors
SetArgs(nx, nu) ==
  {Args(ab, t, v) : ab \in ABCands(nx, nu), t \in QRNCands(nx, nu),
                    v \in fqrCands(nx, nu)}
  \cup Misshaped(nx, nu)

\* the models the three constructors build from the arguments in S, for the
\* dimensions d (a constructor that throws builds none)
Constructed(d, S) ==
  {r.model : r \in {c \in {ActionModelLQR5(a) : a \in S}
                             \cup {ActionModelLQR8(a) : a \in S} : c.err = ""}}
  \cup {ActionModelLQR3(d[1], d[2], df) : df \in BOOLEAN}

---------------------------------------------------------------------------
(* The parametrization is not built in the LQR specifications, nor the LQR *)
(* model in the parametrization's.                                         *)

NoHist == [calc_t |-> Empty, params_w |-> Empty]
NoLQR == Members(0, 0, FALSE)
NoRK4 ==
  /\ cp = [nw_ |-> 0, nu_ |-> 0]
  /\ cdata = Empty
  /\ u_lb = Empty
  /\ u_ub = Empty
  /\ out = Empty
  /\ hist = NoHist

---------------------------------------------------------------------------
(* Spec: an LQR model, built by one of its constructors, whose matrices    *)
(* the caller replaces with set_LQR.                                       *)

InitWith(d, S) ==
  /\ lqr \in Constructed(d, S)
  /\ data = createData(lqr)
  /\ call = [op |-> "ActionModelLQR", x |-> Empty, u |-> Empty]
  /\ err = ""
  /\ NoRK4

Init == \E d \in Dims : InitWith(d, SetArgs(d[1], d[2]))

SetLQRWith(S) ==
  /\ lqr.nx > 0
  /\ err # ErrAbort
  /\ \E a \in S : \E res \in {set_LQR(lqr, a)} :
       /\ lqr' = res.model
       /\ err' = res.err
  /\ call' = [op |-> "set_LQR", x |-> Empty, u |-> Empty]
  /\ UNCHANGED <<data, cp, cdata, u_lb, u_ub, out, hist>>

SetLQR == SetLQRWith(SetArgs(lqr.nx, lqr.nu_))

Next == SetLQR

Spec == Init /\ [][Next]_vars

---------------------------------------------------------------------------
(* SpecEval: the evaluation calls.  Either an LQR model with its data, on  *)
(* which the caller runs set_LQR, calc and calcDiff, or (further below) a  *)
(* control parametrization with its data.                                  *)

\* the dimensions of the LQR model evaluated (those of the specification's
\* end-to-end example)
EvalDims == <<2, 1>>

Ramp(n) == Tuple([i \in 1..n |-> Num(i)])
\* the first unit vector
E1(n) == Tuple([i \in 1..n |-> IF i = 1 THEN One ELSE 0])

\* set_LQR's arguments in SpecEval: the example's, ones with every block
\* non-zero, an A with a column too many, an asymmetric Q and a wrongly
\* shaped Q
EvalArgs(nx, nu) ==
  {Plain(nx, nu),
   Args(<<UpperOnes(nx), Identity(nx, nu)>>,
        <<Scale(Two, Identity(nx, nx)), Scale(Two, Identity(nu, nu)),
          OnesMat(nx, nu)>>,
        <<OnesVec(nx), OnesVec(nx), OnesVec(nu)>>),
   [Plain(nx, nu) EXCEPT !.A = Identity(nx, nx + 1)],
   [Plain(nx, nu) EXCEPT !.Q = UpperOnes(nx)],
   [Plain(nx, nu) EXCEPT !.Q = Identity(nx, nx + 1)]}

\* the x and u passed to calc and calcDiff, the last of each wrongly sized
XCands(nx) == {E1(nx), Ramp(nx), ZeroVec(nx + 1)}
UCands(nu) == {OnesVec(nu), ZeroVec(nu + 1)}

InitLQR == InitWith(EvalDims, EvalArgs(EvalDims[1], EvalDims[2]))

SetLQREval == SetLQRWith(EvalArgs(lqr.nx, lqr.nu_))

Calc ==
  /\ lqr.nx > 0
  /\ err # ErrAbort
  /\ \E x \in XCands(lqr.nx), u \in UCands(lqr.nu_) :
       /\ \E o \in calc(lqr, data, x, u) :
            /\ data' = o.data
            /\ err' = o.err
       /\ call' = [op |-> "calc", x |-> x, u |-> u]
  /\ UNCHANGED <<lqr, cp, cdata, u_lb, u_ub, out, hist>>

CalcDiff ==
  /\ lqr.nx > 0
  /\ err # ErrAbort
  /\ \E x \in XCands(lqr.nx), u \in UCands(lqr.nu_) :
       /\ \E o \in {calcDiff(lqr, data, x, u)} :
            /\ data' = o.data
            /\ err' = o.err
       /\ call' = [op |-> "calcDiff", x |-> x, u |-> u]
  /\ UNCHANGED <<lqr, cp, cdata, u_lb, u_ub, out, hist>>

---------------------------------------------------------------------------
(* ControlParametrizationModelPolyTwoRK4Tpl.                               *)

Erruw == "w has wrong dimension"
Errulb == "u_lb has wrong dimension"
Erruub == "u_ub has wrong dimension"
Errwlb == "w_lb has wrong dimension"
Errwub == "w_ub has wrong dimension"
ErrDims == "A and out have wrong dimensions"
ErrOp == "allowed operators: setto, addto, rmfrom"
ErrOpAssert == "op must be one of the AssignmentOp {settop, addto, rmfrom}"

\* ControlParametrizationModelPolyTwoRK4Tpl(nw)
PolyTwoRK4(nw) == [nw_ |-> nw, nu_ |-> 3 * nw]

\* the data createData() returns: every buffer sized for the model and zero
PolyTwoRK4_createData(m) ==
  [w |-> ZeroVec(m.nw_), u |-> ZeroVec(m.nu_), dw_du |-> Zero(m.nw_, m.nu_),
   c |-> <<0, 0, 0>>, tmp_t2 |-> 0]

\* u.head(n), u.segment(n, n), u.tail(n)
head(u, n) == SubSeq(u, 1, n)
segment(u, a, n) == SubSeq(u, a + 1, a + n)
tail(u, n) == SubSeq(u, Len(u) - n + 1, Len(u))
\* the vector with w in each third
Thirds(w) == w \o w \o w

\* calc(data, t, u): c[0..2] are c[1..3] here
\* calc whose c[0] lacks the constant term
PolyTwoRK4_calc_noOne(m, d, t, u) ==
  IF Len(u) # m.nu_ THEN [data |-> d, err |-> Erru]
  ELSE LET p0 == head(u, m.nw_)
           p1 == segment(u, m.nw_, m.nw_)
           p2 == tail(u, m.nw_)
           tmp_t2 == Mul(t, t)
           c2 == Mul(Two, tmp_t2) - t
           c1 == Mul(-Two, c2) + Mul(Two, t)
           c0 == c2 - Mul(Two, t)
       IN [data |-> [d EXCEPT
             !.tmp_t2 = tmp_t2,
             !.c = <<c0, c1, c2>>,
             !.w = Tuple([i \in 1..m.nw_ |->
                      Mul(c2, p2[i]) + Mul(c1, p1[i]) + Mul(c0, p0[i])])],
           err |-> ""]

PolyTwoRK4_calc(m, d, t, u) ==
  IF Len(u) # m.nu_ THEN [data |-> d, err |-> Erru]
  ELSE LET p0 == head(u, m.nw_)
           p1 == segment(u, m.nw_, m.nw_)
           p2 == tail(u, m.nw_)
           tmp_t2 == Mul(t, t)
           c2 == Mul(Two, tmp_t2) - t
           c1 == Mul(-Two, c2) + Mul(Two, t)
           c0 == c2 - Mul(Two, t) + One
       IN [data |-> [d EXCEPT
             !.tmp_t2 = tmp_t2,
             !.c = <<c0, c1, c2>>,
             !.w = Tuple([i \in 1..m.nw_ |->
                      Mul(c2, p2[i]) + Mul(c1, p1[i]) + Mul(c0, p0[i])])],
           err |-> ""]

\* calcDiff(data, t, u): neither t nor u is read
\* calcDiff with the middle and the right block exchanged
PolyTwoRK4_calcDiff_swapped(m, d, t, u) ==
  [data |-> [d EXCEPT !.dw_du =
     Matrix(m.nw_, m.nu_, LAMBDA i, j :
       IF j = i THEN d.c[1]
       ELSE IF j = m.nw_ + i THEN d.c[3]
       ELSE IF j = 2 * m.nw_ + i THEN d.c[2]
       ELSE d.dw_du[i][j])],
   err |-> ""]

PolyTwoRK4_calcDiff(m, d, t, u) ==
  [data |-> [d EXCEPT !.dw_du =
     Matrix(m.nw_, m.nu_, LAMBDA i, j :
       IF j = i THEN d.c[1]
       ELSE IF j = m.nw_ + i THEN d.c[2]
       ELSE IF j = 2 * m.nw_ + i THEN d.c[3]
       ELSE d.dw_du[i][j])],
   err |-> ""]

\* params(data, t, w)
\* params that leaves the tail of data.u as it was
params_noTail(m, d, t, w) ==
  IF Len(w) # m.nw_ THEN [data |-> d, err |-> Erruw]
  ELSE [data |-> [d EXCEPT !.u = w \o w \o tail(d.u, m.nw_)], err |-> ""]

params(m, d, t, w) ==
  IF Len(w) # m.nw_ THEN [data |-> d, err |-> Erruw]
  ELSE [data |-> [d EXCEPT !.u = Thirds(w)], err |-> ""]

\* convertBounds(w_lb, w_ub, u_lb, u_ub) on the buffers lb, ub: how it leaves
\* them and the message of its exception
\* convertBounds that writes u_lb before it checks w_ub
convertBounds_writesFirst(m, w_lb, w_ub, lb, ub) ==
  LET fail(msg) == [u_lb |-> lb, u_ub |-> ub, err |-> msg]
  IN IF Len(lb) # m.nu_ THEN fail(Errulb)
     ELSE IF Len(ub) # m.nu_ THEN fail(Erruub)
     ELSE IF Len(w_lb) # m.nw_ THEN fail(Errwlb)
     ELSE IF Len(w_ub) # m.nw_
          THEN [u_lb |-> Thirds(w_lb), u_ub |-> ub, err |-> Errwub]
     ELSE [u_lb |-> Thirds(w_lb), u_ub |-> Thirds(w_ub), err |-> ""]

convertBounds(m, w_lb, w_ub, lb, ub) ==
  LET fail(msg) == [u_lb |-> lb, u_ub |-> ub, err |-> msg]
  IN IF Len(lb) # m.nu_ THEN fail(Errulb)
     ELSE IF Len(ub) # m.nu_ THEN fail(Erruub)
     ELSE IF Len(w_lb) # m.nw_ THEN fail(Errwlb)
     ELSE IF Len(w_ub) # m.nw_ THEN fail(Errwub)
     ELSE [u_lb |-> Thirds(w_lb), u_ub |-> Thirds(w_ub), err |-> ""]

\* out = v, out += v, out -= v for one entry
Assign(op, o, v) ==
  IF op = "setto" THEN v ELSE IF op = "addto" THEN o + v ELSE o - v

AssignmentOps == {"setto", "addto", "rmfrom"}

\* multiplyByJacobian(data, A, out, op) on the buffer o: the outcomes it can
\* have, each the buffer as it leaves it and the message of its exception.
\* assert_pretty(is_a_AssignmentOp(op)) throws first in a build with
\* assertions; without them the switch's default branch throws.
\* multiplyByJacobian whose rmfrom adds to the right block
multiplyByJacobian_rmAdds(m, d, A, o, op) ==
  IF Rows(A) # Rows(o) \/ Cols(A) # m.nw_ \/ Cols(o) # m.nu_
  THEN {[out |-> o, err |-> ErrDims]}
       \cup (IF op \in AssignmentOps THEN {} ELSE {[out |-> o, err |-> ErrOpAssert]})
  ELSE IF op \notin AssignmentOps
  THEN {[out |-> o, err |-> ErrOp], [out |-> o, err |-> ErrOpAssert]}
  ELSE {[out |-> Matrix(Rows(o), Cols(o), LAMBDA i, j :
           IF j <= m.nw_ THEN Assign(op, o[i][j], Mul(d.c[1], A[i][j]))
           ELSE IF j <= 2 * m.nw_
                THEN Assign(op, o[i][j], Mul(d.c[2], A[i][j - m.nw_]))
           ELSE Assign(IF op = "rmfrom" THEN "addto" ELSE op, o[i][j],
                       Mul(d.c[3], A[i][j - 2 * m.nw_]))),
         err |-> ""]}

multiplyByJacobian(m, d, A, o, op) ==
  IF Rows(A) # Rows(o) \/ Cols(A) # m.nw_ \/ Cols(o) # m.nu_
  THEN {[out |-> o, err |-> ErrDims]}
       \cup (IF op \in AssignmentOps THEN {} ELSE {[out |-> o, err |-> ErrOpAssert]})
  ELSE IF op \notin AssignmentOps
  THEN {[out |-> o, err |-> ErrOp], [out |-> o, err |-> ErrOpAssert]}
  ELSE {[out |-> Matrix(Rows(o), Cols(o), LAMBDA i, j :
           IF j <= m.nw_ THEN Assign(op, o[i][j], Mul(d.c[1], A[i][j]))
           ELSE IF j <= 2 * m.nw_
                THEN Assign(op, o[i][j], Mul(d.c[2], A[i][j - m.nw_]))
           ELSE Assign(op, o[i][j], Mul(d.c[3], A[i][j - 2 * m.nw_]))),
         err |-> ""]}

\* multiplyJacobianTransposeBy(data, A, out, op) on the buffer o
multiplyJacobianTransposeBy(m, d, A, o, op) ==
  IF Cols(A) # Cols(o) \/ Rows(A) # m.nw_ \/ Rows(o) # m.nu_
  THEN {[out |-> o, err |-> ErrDims]}
       \cup (IF op \in AssignmentOps THEN {} ELSE {[out |-> o, err |-> ErrOpAssert]})
  ELSE IF op \notin AssignmentOps
  THEN {[out |-> o, err |-> ErrOp], [out |-> o, err |-> ErrOpAssert]}
  ELSE {[out |-> Matrix(Rows(o), Cols(o), LAMBDA i, j :
           IF i <= m.nw_ THEN Assign(op, o[i][j], Mul(d.c[1], A[i][j]))
           ELSE IF i <= 2 * m.nw_
                THEN Assign(op, o[i][j], Mul(d.c[2], A[i - m.nw_][j]))
           ELSE Assign(op, o[i][j], Mul(d.c[3], A[i - 2 * m.nw_][j]))),
         err |-> ""]}

---------------------------------------------------------------------------
(* The parametrization's callers.                                          *)

\* the nw of the parametrizations built
Nws == {1, 2}
\* the times passed: -1/TDen, 0, 1/TDen, .., 1, 1 + 1/TDen
Times == {k * (One \div TDen) : k \in -1..(TDen + 1)}
\* the times passed to the calls that ignore their t (calcDiff, params): a
\* node, a time between the nodes and the end of the interval
IgnoredTimes == {0, One \div TDen, One}
\* an r x c matrix of distinct whole numbers
Grid(r, c) == Matrix(r, c, LAMBDA i, j : Num(c * (i - 1) + j))

\* <<A, out>> of multiplyByJacobian: well shaped, then A with a column too
\* many, out with a column too many, out with a row too many
ByJacobianCands(m) ==
  LET r == m.nw_ + 1
  IN {<<Grid(r, m.nw_), OnesMat(r, m.nu_)>>,
      <<Grid(r, m.nw_ + 1), OnesMat(r, m.nu_)>>,
      <<Grid(r, m.nw_), OnesMat(r, m.nu_ + 1)>>,
      <<Grid(r, m.nw_), OnesMat(r + 1, m.nu_)>>}
\* the same transposed, for multiplyJacobianTransposeBy
TransposeByCands(m) ==
  {<<Transpose(p[1]), Transpose(p[2])>> : p \in ByJacobianCands(m)}
\* <<w_lb, w_ub, u_lb, u_ub>> of convertBounds: well sized, then each of the
\* four wrongly sized
BoundsCands(m) ==
  LET lo == ZeroVec(m.nw_)
      hi == Ramp(m.nw_)
      b == OnesVec(m.nu_)
  IN {<<lo, hi, b, b>>, <<lo, hi, OnesVec(m.nu_ + 1), b>>,
      <<lo, hi, b, OnesVec(m.nu_ + 1)>>, <<ZeroVec(m.nw_ + 1), hi, b, b>>,
      <<lo, Ramp(m.nw_ + 1), b, b>>}

InitRK4 ==
  /\ cp \in {PolyTwoRK4(nw) : nw \in Nws}
  /\ cdata = PolyTwoRK4_createData(cp)
  /\ u_lb = Empty
  /\ u_ub = Empty
  /\ out = Empty
  /\ call = [op |-> "PolyTwoRK4"]
  /\ err = ""
  /\ hist = NoHist
  /\ lqr = NoLQR
  /\ data = Empty

\* a call that takes no output buffer of the caller's leaves none behind
NoBuffers == u_lb' = Empty /\ u_ub' = Empty /\ out' = Empty

RK4Calc ==
  /\ cp.nw_ > 0
  /\ \E t \in Times, u \in {Ramp(cp.nu_), cdata.u, ZeroVec(cp.nu_ + 1)} :
       \E o \in {PolyTwoRK4_calc(cp, cdata, t, u)} :
          /\ cdata' = o.data
          /\ err' = o.err
          /\ call' = [op |-> "rk4.calc", t |-> t, u |-> u]
          /\ hist' = IF o.err = "" THEN [hist EXCEPT !.calc_t = <<t>>] ELSE hist
  /\ NoBuffers
  /\ UNCHANGED <<lqr, data, cp>>

RK4CalcDiff ==
  /\ cp.nw_ > 0
  /\ \E t \in IgnoredTimes, u \in {Ramp(cp.nu_), ZeroVec(cp.nu_)} :
       \E o \in {PolyTwoRK4_calcDiff(cp, cdata, t, u)} :
          /\ cdata' = o.data
          /\ err' = o.err
          /\ call' = [op |-> "rk4.calcDiff", t |-> t, u |-> u]
  /\ NoBuffers
  /\ UNCHANGED <<lqr, data, cp, hist>>

Params ==
  /\ cp.nw_ > 0
  /\ \E t \in IgnoredTimes, w \in {Ramp(cp.nw_), OnesVec(cp.nw_), ZeroVec(cp.nw_ + 1)} :
       \E o \in {params(cp, cdata, t, w)} :
          /\ cdata' = o.data
          /\ err' = o.err
          /\ call' = [op |-> "params", w |-> w]
          /\ hist' = IF o.err = "" THEN [hist EXCEPT !.params_w = <<w>>] ELSE hist
  /\ NoBuffers
  /\ UNCHANGED <<lqr, data, cp>>

ConvertBounds ==
  /\ cp.nw_ > 0
  /\ \E b \in BoundsCands(cp) :
       \E o \in {convertBounds(cp, b[1], b[2], b[3], b[4])} :
          /\ u_lb' = o.u_lb
          /\ u_ub' = o.u_ub
          /\ err' = o.err
          /\ call' = [op |-> "convertBounds", w_lb |-> b[1], w_ub |-> b[2],
                      u_lb |-> b[3], u_ub |-> b[4]]
  /\ out' = Empty
  /\ UNCHANGED <<lqr, data, cp, cdata, hist>>

\* the (A, out, op) passed: every AssignmentOp on every candidate, and a
\* value outside the enumeration on the well-shaped candidate
OpsFor(p, well) == AssignmentOps \cup (IF p = well THEN {"other"} ELSE {})

MultiplyByJacobian ==
  /\ cp.nw_ > 0
  /\ \E p \in ByJacobianCands(cp) :
       \E op \in OpsFor(p, <<Grid(cp.nw_ + 1, cp.nw_), OnesMat(cp.nw_ + 1, cp.nu_)>>) :
         \E o \in multiplyByJacobian(cp, cdata, p[1], p[2], op) :
            /\ out' = o.out
            /\ err' = o.err
            /\ call' = [op |-> "multiplyByJacobian", A |-> p[1], out |-> p[2],
                        asg |-> op]
  /\ u_lb' = Empty /\ u_ub' = Empty
  /\ UNCHANGED <<lqr, data, cp, cdata, hist>>

MultiplyJacobianTransposeBy ==
  /\ cp.nw_ > 0
  /\ \E p \in TransposeByCands(cp) :
       \E op \in OpsFor(p, <<Transpose(Grid(cp.nw_ + 1, cp.nw_)),
                             OnesMat(cp.nu_, cp.nw_ + 1)>>) :
         \E o \in multiplyJacobianTransposeBy(cp, cdata, p[1], p[2], op) :
            /\ out' = o.out
            /\ err' = o.err
            /\ call' = [op |-> "multiplyJacobianTransposeBy", A |-> p[1],
                        out |-> p[2], asg |-> op]
  /\ u_lb' = Empty /\ u_ub' = Empty
  /\ UNCHANGED <<lqr, data, cp, cdata, hist>>

InitEval == InitLQR \/ InitRK4

NextEval ==
  \/ SetLQREval \/ Calc \/ CalcDiff
  \/ RK4Calc \/ RK4CalcDiff \/ Params \/ ConvertBounds
  \/ MultiplyByJacobian \/ MultiplyJacobianTransposeBy

SpecEval == InitEval /\ [][NextEval]_vars

---------------------------------------------------------------------------
(* Notions the claims are stated with.                                     *)

IsZeroVec(v) == \A i \in 1..Len(v) : v[i] = 0
IsShaped(M, r, c) == Rows(M) = r /\ \A i \in 1..Rows(M) : Len(M[i]) = c

RECURSIVE Sorted(_)
\* the elements of a set of integers in increasing order
Sorted(S) ==
  IF S = {} THEN <<>>
  ELSE LET m == CHOOSE a \in S : \A b \in S : a <= b
       IN <<m>> \o Sorted(S \ {m})

IsSymmetric(H) == \A i, j \in 1..Rows(H) : H[i][j] = H[j][i]
\* a symmetric matrix is positive-semi-definite iff every principal minor
\* (the determinant on any set of indices) is >= 0
IsPSD(H) ==
  \A S \in (SUBSET (1..Rows(H))) \ {{}} :
    LET idx == Sorted(S)
    IN Det(Matrix(Len(idx), Len(idx), LAMBDA a, b : H[idx[a]][idx[b]])) >= 0

\* x^T M y for vectors and a matrix of whole numbers
Bilinear(x, M, y) ==
  SumSeq(Tuple([i \in 1..Len(x) |->
    SumSeq(Tuple([j \in 1..Len(y) |-> (x[i] * M[i][j] * y[j]) \div (One * One)]))]))
\* q^T x
Linear(q, x) == SumSeq(Tuple([i \in 1..Len(x) |-> (q[i] * x[i]) \div One]))
\* x + k * h * e_i
Shift(x, i, k) == [x EXCEPT ![i] = x[i] + Num(k)]

LQRCalled(op) == lqr.nx > 0 /\ call.op = op /\ err = ""
RK4Called(op) == cp.nw_ > 0 /\ call.op = op /\ err = ""

\* the coefficients <<c0, c1, c2>> at the time t:
\* c2 = 2 t^2 - t, c1 = -2 c2 + 2 t, c0 = c2 - 2 t + 1
CoeffsAt(t) ==
  LET c2 == (2 * t * t) \div One - t
      c1 == 2 * t - 2 * c2
  IN <<c2 - 2 * t + One, c1, c2>>
\* [c0 I, c1 I, c2 I] for the coefficients c, nw x 3 nw
Blocks(c, nw) ==
  Matrix(nw, 3 * nw, LAMBDA i, j :
    IF j = i THEN c[1] ELSE IF j = nw + i THEN c[2]
    ELSE IF j = 2 * nw + i THEN c[3] ELSE 0)
\* the matrix product
MatMul(A, B) ==
  Matrix(Rows(A), Cols(B), LAMBDA i, j :
    SumSeq(Tuple([k \in 1..Cols(A) |-> (A[i][k] * B[k][j]) \div One])))
\* o combined with the product P: overwritten, added to, subtracted from
Combined(op, o, P) ==
  Matrix(Rows(o), Cols(o), LAMBDA i, j :
    CASE op = "setto" -> P[i][j]
      [] op = "addto" -> o[i][j] + P[i][j]
      [] op = "rmfrom" -> o[i][j] - P[i][j])
\* dw_du is the Jacobian calcDiff writes after the latest returning calc
Synced ==
  /\ hist.calc_t # Empty
  /\ cdata.c = CoeffsAt(hist.calc_t[1])
  /\ cdata.dw_du = Blocks(cdata.c, cp.nw_)

---------------------------------------------------------------------------
(* Claims on ActionModelLQR.                                               *)

\* C1 (as claimed): a set_LQR that throws leaves every field of the model,
\* the stored block matrix H_ included, as it was before the call.
C1_FailedSetLQRChangesNothing ==
  [][(call'.op = "set_LQR" /\ err' # "") => lqr' = lqr]_vars

\* C2 (as claimed): in every state a constructor and any set_LQR calls reach,
\* A_ is nx x nx, B_ nx x nu, Q_ nx x nx, R_ nu x nu, N_ nx x nu, f_ and q_
\* have length nx and r_ length nu.
C2_StoredShapes ==
  lqr.nx > 0 =>
    /\ IsShaped(lqr.A_, lqr.nx, lqr.nx)
    /\ IsShaped(lqr.B_, lqr.nx, lqr.nu_)
    /\ IsShaped(lqr.Q_, lqr.nx, lqr.nx)
    /\ IsShaped(lqr.R_, lqr.nu_, lqr.nu_)
    /\ IsShaped(lqr.N_, lqr.nx, lqr.nu_)
    /\ Len(lqr.f_) = lqr.nx
    /\ Len(lqr.q_) = lqr.nx
    /\ Len(lqr.r_) = lqr.nu_

\* C3 (as claimed): a set_LQR whose arguments pass the shape checks (it
\* returns, or throws the message of the last check) throws if and only if
\* the H it assembled is not symmetric or not positive-semi-definite.
C3_RejectsExactlyNonPSD ==
  (lqr.nx > 0 /\ call.op = "set_LQR" /\ err \in {"", ErrH}) =>
    (err = ErrH <=> ~(IsSymmetric(lqr.H_) /\ IsPSD(lqr.H_)))

\* C4 (as claimed): in every reachable state of a model, drift_free_ = true
\* implies f_ = 0, q_ = 0 and r_ = 0.
C4_DriftFreeHasNoLinearTerms ==
  (lqr.nx > 0 /\ lqr.drift_free_) =>
    IsZeroVec(lqr.f_) /\ IsZeroVec(lqr.q_) /\ IsZeroVec(lqr.r_)

\* C5 (as claimed): after calc(data, x, u) with |x| = nx and |u| = nu,
\* data.xnext = A x + B u + f and
\* data.cost = 1/2 x'Qx + 1/2 u'Ru + x'Nu + q'x + r'u for the model's current
\* matrices; with the matrices of the example, x = [1, 0] and u = [1] this is
\* xnext = [1, 1] and cost = 1.
C5_CalcWritesDynamicsAndCost ==
  LQRCalled("calc") =>
    LET x == call.x
        u == call.u
    IN /\ \A i \in 1..lqr.nx :
            data.xnext[i] =
              SumSeq(Tuple([j \in 1..lqr.nx |-> Mul(lqr.A_[i][j], x[j])]))
              + SumSeq(Tuple([j \in 1..lqr.nu_ |-> Mul(lqr.B_[i][j], u[j])]))
              + lqr.f_[i]
       /\ Len(data.xnext) = lqr.nx
       /\ data.cost = Bilinear(x, lqr.Q_, x) \div 2 + Bilinear(u, lqr.R_, u) \div 2
                      + Bilinear(x, lqr.N_, u) + Linear(lqr.q_, x)
                      + Linear(lqr.r_, u)
       /\ ( /\ lqr.A_ = <<<<One, 0>>, <<0, One>>>>
            /\ lqr.B_ = <<<<0>>, <<One>>>>
            /\ lqr.Q_ = lqr.A_ /\ lqr.R_ = <<<<One>>>> /\ lqr.N_ = <<<<0>>, <<0>>>>
            /\ IsZeroVec(lqr.f_) /\ IsZeroVec(lqr.q_) /\ IsZeroVec(lqr.r_)
            /\ x = <<One, 0>> /\ u = <<One>> )
          => (data.xnext = <<One, One>> /\ data.cost = One)

\* C6: after calcDiff(data, x, u), Lx and Lu are the exact partial
\* derivatives of the cost calc writes: for every coordinate and every step
\* h in 1..MaxH, cost(x + h e_i, u) - cost(x - h e_i, u) = 2 h Lx[i] and
\* cost(x, u + h e_j) - cost(x, u - h e_j) = 2 h Lu[j], where cost(x, u) is
\* the cost any returning calc(data, x, u) leaves in data.
C6_GradientIsCentralDifference ==
  LQRCalled("calcDiff") =>
    LET x == call.x
        u == call.u
        costs(y, v) == {o.data.cost : o \in {p \in calc(lqr, data, y, v) : p.err = ""}}
    IN /\ \A i \in 1..lqr.nx, h \in 1..MaxH :
            \A cp1 \in costs(Shift(x, i, h), u), cm \in costs(Shift(x, i, -h), u) :
               cp1 - cm = 2 * h * data.Lx[i]
       /\ \A j \in 1..lqr.nu_, h \in 1..MaxH :
            \A cp1 \in costs(x, Shift(u, j, h)), cm \in costs(x, Shift(u, j, -h)) :
               cp1 - cm = 2 * h * data.Lu[j]
       /\ costs(x, u) # {}

\* C6 witness: calcDiff has returned for a model with a non-zero N_, q_, r_
\* and an x with two non-zero entries.
C6_Witness ==
  /\ LQRCalled("calcDiff")
  /\ lqr.N_ = OnesMat(lqr.nx, lqr.nu_)
  /\ ~IsZeroVec(lqr.q_)
  /\ call.x = Ramp(lqr.nx)
  /\ data.Lx # data.Lxx[1]

---------------------------------------------------------------------------
(* Claims on the evaluation calls of both classes.                         *)

\* C7: a call of LQR calc / calcDiff, of the parametrization's calc, params,
\* convertBounds, multiplyByJacobian or multiplyJacobianTransposeBy that
\* throws leaves the model, every field of the data and the caller's buffers
\* (u_lb, u_ub, out, as passed to the call) exactly as before the call.
C7_FailedCallWritesNothing ==
  [][(/\ call'.op \in {"calc", "calcDiff", "rk4.calc", "params", "convertBounds",
                       "multiplyByJacobian", "multiplyJacobianTransposeBy"}
      /\ err' \notin {"", ErrAbort})
     => /\ lqr' = lqr /\ data' = data /\ cp' = cp /\ cdata' = cdata
        /\ call'.op = "convertBounds" =>
             (u_lb' = call'.u_lb /\ u_ub' = call'.u_ub)
        /\ call'.op \in {"multiplyByJacobian", "multiplyJacobianTransposeBy"} =>
             out' = call'.out]_vars

\* C7 witness: convertBounds has thrown at its last check, on w_ub, with
\* well-sized buffers behind it.
C7_Witness ==
  /\ cp.nw_ > 0
  /\ call.op = "convertBounds"
  /\ err = Errwub
  /\ Len(u_lb) = cp.nu_
  /\ Len(call.w_lb) = cp.nw_
  /\ u_lb = call.u_lb

\* C8 (as claimed): after calcDiff(data, t, u), dw_du = [c0 I, c1 I, c2 I]
\* with the coefficients at the t passed to that calcDiff, whatever calls
\* came before on the same data; stated here for the histories in which a
\* calc has returned on the data, with a t of its own.
C8_JacobianAtOwnTime ==
  (RK4Called("rk4.calcDiff") /\ hist.calc_t # Empty) =>
    cdata.dw_du = Blocks(CoeffsAt(call.t), cp.nw_)

\* C8 (amended): a calcDiff(data, t, u) on a data on which a calc has
\* returned writes, on the diagonals of the three nw x nw blocks of dw_du,
\* c0, c1, c2 at the t of the latest returning calc on that data, whatever
\* t and u it is passed itself, and writes no other entry: dw_du is
\* [c0 I, c1 I, c2 I] at that t when its other entries were zero, and is the
\* Jacobian at calcDiff's own t when the two times are equal.
C8_JacobianAtTimeOfLastCalc ==
  [][(cp.nw_ > 0 /\ call'.op = "rk4.calcDiff" /\ err' = "" /\ hist'.calc_t # Empty)
     => LET c == CoeffsAt(hist'.calc_t[1])
            nw == cp.nw_
            blocks == Blocks(c, nw)
            written(i, j) == j \in {i, nw + i, 2 * nw + i}
        IN /\ \A i \in 1..nw : \A j \in 1..(3 * nw) :
                cdata'.dw_du[i][j] = IF written(i, j) THEN blocks[i][j]
                                     ELSE cdata.dw_du[i][j]
           /\ (\A i \in 1..nw : \A j \in 1..(3 * nw) :
                 written(i, j) \/ cdata.dw_du[i][j] = 0)
                => cdata'.dw_du = blocks
           /\ call'.t = hist'.calc_t[1]
                => cdata'.dw_du = Blocks(CoeffsAt(call'.t), nw)]_vars

\* C8 witness: calcDiff has returned, passed a t other than that of the
\* latest calc, whose three coefficients are all non-zero.
C8_Witness ==
  /\ RK4Called("rk4.calcDiff")
  /\ hist.calc_t # Empty
  /\ call.t # hist.calc_t[1]
  /\ cp.nw_ > 1
  /\ \A k \in 1..3 : cdata.dw_du[1][(k - 1) * cp.nw_ + 1] # 0

\* C9: params(data, t, w) stores u = (w, w, w) in data.u, and a calc(data,
\* t', data.u) after it, for any t', writes data.w = w.
C9_ParamsThenCalcReturnsW ==
  /\ RK4Called("params") => cdata.u = call.w \o call.w \o call.w
  /\ (cp.nw_ > 0 /\ hist.params_w # Empty) =>
       cdata.u = hist.params_w[1] \o hist.params_w[1] \o hist.params_w[1]
  /\ (RK4Called("rk4.calc") /\ hist.params_w # Empty /\ call.u = cdata.u) =>
       cdata.w = hist.params_w[1]

\* C9 witness: calc has returned on the data.u a params stored, at a time
\* where all three coefficients are non-zero.
C9_Witness ==
  /\ RK4Called("rk4.calc")
  /\ hist.params_w # Empty
  /\ call.u = cdata.u
  /\ cp.nw_ > 1
  /\ \A k \in 1..3 : cdata.c[k] # 0
  /\ cdata.w = Ramp(cp.nw_)

\* C10: with dw_du written by calcDiff after the latest calc, for a well
\* shaped A and the prior content out0 of out, multiplyByJacobian leaves
\* out = A dw_du, out0 + A dw_du or out0 - A dw_du, and
\* multiplyJacobianTransposeBy leaves dw_du^T A combined the same way; each
\* applied to the transposed arguments gives the transpose of the other.
C10_JacobianProducts ==
  /\ (RK4Called("multiplyByJacobian") /\ Synced) =>
       /\ out = Combined(call.asg, call.out, MatMul(call.A, cdata.dw_du))
       /\ \A o \in multiplyJacobianTransposeBy(cp, cdata, Transpose(call.A),
                                               Transpose(call.out), call.asg) :
            o.err = "" /\ o.out = Transpose(out)
  /\ (RK4Called("multiplyJacobianTransposeBy") /\ Synced) =>
       /\ out = Combined(call.asg, call.out,
                         MatMul(Transpose(cdata.dw_du), call.A))
       /\ \A o \in multiplyByJacobian(cp, cdata, Transpose(call.A),
                                      Transpose(call.out), call.asg) :
            o.err = "" /\ o.out = Transpose(out)

\* C10 witness: multiplyByJacobian has subtracted from a non-zero out, for
\* nw = 2 and three non-zero coefficients.
C10_Witness ==
  /\ RK4Called("multiplyByJacobian")
  /\ Synced
  /\ call.asg = "rmfrom"
  /\ cp.nw_ > 1
  /\ \A k \in 1..3 : cdata.c[k] # 0
  /\ out # call.out

\* C11: after every returning calc(data, t, u) the coefficients stored in
\* data sum to one, whatever t is, and stay so until the next calc; they are
\* (1, 0, 0) at t = 0 and (0, 0, 1) at t = 1; and data.w is
\* c0 p0 + c1 p1 + c2 p2 for the first, middle and last third p0, p1, p2 of u.
C11_PartitionOfUnity ==
  /\ (cp.nw_ > 0 /\ hist.calc_t # Empty) =>
       cdata.c[1] + cdata.c[2] + cdata.c[3] = One
  /\ RK4Called("rk4.calc") =>
       LET nw == cp.nw_
           p0 == SubSeq(call.u, 1, nw)
           p1 == SubSeq(call.u, nw + 1, 2 * nw)
           p2 == SubSeq(call.u, 2 * nw + 1, 3 * nw)
       IN /\ call.t = 0 => cdata.c = <<One, 0, 0>>
          /\ call.t = One => cdata.c = <<0, 0, One>>
          /\ Len(cdata.w) = nw
          /\ \A i \in 1..nw :
               cdata.w[i] * One = cdata.c[1] * p0[i] + cdata.c[2] * p1[i]
                                  + cdata.c[3] * p2[i]

\* C11 witness: calc has returned for nw = 2 on three distinct thirds, at a
\* time where none of the three coefficients is zero.
C11_Witness ==
  /\ RK4Called("rk4.calc")
  /\ cp.nw_ > 1
  /\ call.u = Ramp(cp.nu_)
  /\ \A k \in 1..3 : cdata.c[k] # 0
  /\ cdata.w # ZeroVec(cp.nw_)

====
